---- MODULE Spec2Model ----
(***************************************************************************)
(* State-machine model of the LightOfPDF Flask application (src/app.py).  *)
(*                                                                         *)
(* Text that the code transforms (form fields, URL parameters, queries,   *)
(* credentials, stored field values) is a sequence of one-character       *)
(* strings, so that lower(), strip(), slugify() and the $regex match are  *)
(* computed character by character.  Flash messages, template names and   *)
(* route names are never transformed and stay plain strings.              *)
(***************************************************************************)
EXTENDS Integers, Sequences, FiniteSets, TLC

VARIABLES store, session, pc, req, request, response, dbCalls, authHist

vars == <<store, session, pc, req, request, response, dbCalls, authHist>>

(***************************************************************************)
(* Bounds                                                                  *)
(***************************************************************************)
\* Largest number of documents the collection db.pdfs may hold.
MaxDocs == 2

\* Worker threads that serve upload POSTs concurrently.
Threads == {"t1", "t2"}

\* Browser sessions (one signed cookie each).
Sessions == {"s1"}

(***************************************************************************)
(* Characters and the str methods the code calls                          *)
(***************************************************************************)
UpperChars == <<"A","B","C","D","E","F","G","H","I","J","K","L","M",
                "N","O","P","Q","R","S","T","U","V","W","X","Y","Z">>

LowerChars == <<"a","b","c","d","e","f","g","h","i","j","k","l","m",
                "n","o","p","q","r","s","t","u","v","w","x","y","z">>

DigitChars == {"0","1","2","3","4","5","6","7","8","9"}

Whitespace == {" "}

Range(s) == {s[i] : i \in DOMAIN s}

\* Every character of the model's alphabet.
Chars ==
    Range(UpperChars) \cup Range(LowerChars) \cup DigitChars
        \cup Whitespace \cup {"-", "!", ".", "("}

LowerMap ==
    [c \in Chars |->
        IF \E i \in DOMAIN UpperChars : UpperChars[i] = c
        THEN LowerChars[CHOOSE i \in DOMAIN UpperChars : UpperChars[i] = c]
        ELSE c]

LowerChar(c) == LowerMap[c]

\* str.lower()
lower(s) == [i \in 1..Len(s) |-> LowerChar(s[i])]

\* str.strip(): drops leading and trailing whitespace
strip(s) ==
    LET keep == {i \in 1..Len(s) : s[i] \notin Whitespace}
    IN  IF keep = {} THEN <<>>
        ELSE SubSeq(s, CHOOSE i \in keep : \A j \in keep : i <= j,
                       CHOOSE i \in keep : \A j \in keep : j <= i)

(***************************************************************************)
(* Fixed data                                                              *)
(***************************************************************************)
MODES == << <<"a","c","a","d","e","m","i","c">>,
            <<"a","d","m","i","s","s","i","o","n">> >>

SUBJECTS == <<
       <<"p","h","y","s","i","c","s"," ","1","s","t"," ","p","a","p","e","r">>,
       <<"p","h","y","s","i","c","s"," ","2","n","d"," ","p","a","p","e","r">>,
       <<"c","h","e","m","i","s","t","r","y"," ","1","s","t"," ","p","a","p","e","r">>,
       <<"c","h","e","m","i","s","t","r","y"," ","2","n","d"," ","p","a","p","e","r">>,
       <<"m","a","t","h"," ","1","s","t"," ","p","a","p","e","r">>,
       <<"m","a","t","h"," ","2","n","d"," ","p","a","p","e","r">>,
       <<"b","i","o","l","o","g","y"," ","1","s","t"," ","p","a","p","e","r">>,
       <<"b","i","o","l","o","g","y"," ","2","n","d"," ","p","a","p","e","r">>,
       <<"e","n","g","l","i","s","h"," ","1","s","t"," ","p","a","p","e","r">>,
       <<"b","a","n","g","l","a"," ","1","s","t"," ","p","a","p","e","r">>,
       <<"b","a","n","g","l","a"," ","2","n","d"," ","p","a","p","e","r">>,
       <<"i","c","t">> >>

\* Config.ADMIN_USERNAME / Config.ADMIN_PASSWORD: read from the environment;
\* the model fixes one deployment's values.
ADMIN_USERNAME == <<"a","d">>

ADMIN_PASSWORD == <<"p","w">>

\* Variant of valid_mode that only asks for a value.
valid_mode_AnyValue(mode) == mode # <<>>

valid_mode(mode) == \E i \in DOMAIN MODES : MODES[i] = lower(mode)

valid_subject(subject) == \E i \in DOMAIN SUBJECTS : SUBJECTS[i] = lower(subject)

(***************************************************************************)
(* slugify(title) with python-slugify's defaults, on the model's alphabet  *)
(* (letters, digits, blank, "-", "!", "."): lowercase, every character     *)
(* outside [-a-z0-9] becomes the separator "-", runs of "-" collapse to    *)
(* one, and leading and trailing "-" are dropped.                          *)
(***************************************************************************)
SlugKept == Range(LowerChars) \cup DigitChars \cup {"-"}

SlugChar(c) == IF c \in SlugKept THEN c ELSE "-"

RECURSIVE CollapseDashes(_)
CollapseDashes(s) ==
    IF Len(s) <= 1 THEN s
    ELSE IF s[1] = "-" /\ s[2] = "-" THEN CollapseDashes(Tail(s))
         ELSE <<s[1]>> \o CollapseDashes(Tail(s))

StripDashes(s) ==
    LET keep == {i \in 1..Len(s) : s[i] # "-"}
    IN  IF keep = {} THEN <<>>
        ELSE SubSeq(s, CHOOSE i \in keep : \A j \in keep : i <= j,
                       CHOOSE i \in keep : \A j \in keep : j <= i)

generate_slug(title) ==
    LET low == lower(title)
        sep == [i \in 1..Len(low) |-> SlugChar(low[i])]
    IN  StripDashes(CollapseDashes(sep))

(***************************************************************************)
(* The document store db.pdfs (a MongoDB collection without indexes).      *)
(* store is the collection in insertion order.                             *)
(***************************************************************************)
\* collection.find(filter): every matching document, in store order;
\* matching is the set of documents the filter accepts
Find(coll, matching) == SelectSeq(coll, LAMBDA d : d \in matching)

\* collection.find_one(filter): the first matching document, or None
None == [none |-> TRUE]

FindOne(coll, matching) ==
    LET found == Find(coll, matching)
    IN  IF found = <<>> THEN None ELSE found[1]

\* $regex with option "i" on the model's query alphabet (letters, blank,
\* "-", "." and "("): "." matches any one character, "(" without its ")"
\* is a pattern the server refuses to compile, every other character
\* matches itself in either case; the pattern may match anywhere in the
\* field (unanchored).
RegexCompiles(pattern) == "(" \notin Range(pattern)

RegexCharMatches(p, c) == p = "." \/ LowerChar(p) = LowerChar(c)

RegexSearch(pattern, text) ==
    \E off \in 0..(Len(text) - Len(pattern)) :
        \A j \in 1..Len(pattern) : RegexCharMatches(pattern[j], text[off + j])

(***************************************************************************)
(* Requests                                                                *)
(***************************************************************************)
\* request.form.get(key, '')
FormGet(form, key) == IF key \in DOMAIN form THEN form[key] ELSE <<>>

NoRequest == [route |-> "none"]

NoResponse == [op |-> "none"]

Render(op, status, view, flashes, ctx) ==
    [op |-> op, status |-> status, view |-> view, flashes |-> flashes, ctx |-> ctx]

Redirect(op, target, flashes, ctx) ==
    [op |-> op, status |-> 302, view |-> target, flashes |-> flashes, ctx |-> ctx]

\* Submitted upload forms.
UploadForms ==
    { [mode |-> m, subject |-> s, title |-> t, link |-> l,
       description |-> <<>>, photo |-> <<>>] :
         m \in { <<"A","c","a","d","e","m","i","c">>, <<"x">> },
         s \in { <<"I","C","T">>, <<"x">> },
         t \in { <<" ","A"," ","b"," ">>, <<" ">> },
         l \in { <<"u">>, <<" ">> } }
    \cup
    { [mode |-> <<"a","d","m","i","s","s","i","o","n">>, subject |-> <<"i","c","t">>,
       title |-> <<"a","-","b">>, link |-> <<"u">>,
       description |-> <<" ","c",".","d">>, photo |-> <<"p">>],
      [mode |-> <<"a","c","a","d","e","m","i","c">>, subject |-> <<"i","c","t">>,
       title |-> <<"a","-","b">>, link |-> <<"u">>],
      [mode |-> <<"a","c","a","d","e","m","i","c">>, subject |-> <<"I","c","t">>,
       title |-> <<"!">>, link |-> <<"u">>, description |-> <<>>, photo |-> <<>>],
      [title |-> <<"A"," ","b">>] }

\* Submitted login forms.
LoginForms ==
    { [username |-> <<"a","d">>, password |-> <<"p","w">>],
      [username |-> <<" ","a","d">>, password |-> <<"p","w"," ">>],
      [username |-> <<"a","d">>, password |-> <<"x">>],
      [password |-> <<"p","w">>] }

\* URL parameters of /<mode>/<subject> and /pdf/<subject>/<filename>
ModeArgs == { <<"A","c","a","d","e","m","i","c">>,
              <<"a","d","m","i","s","s","i","o","n">>, <<"i","c","t">> }

SubjectArgs == { <<"I","C","T">>, <<"m","a","t","h">> }

FilenameArgs == { <<"a","-","b">>, <<"A","-","b">> }

\* ?query= values of /search
Queries == { <<>>, <<" "," ">>, <<" ","I","c","t"," ">>, <<"B">>,
             <<"a",".","b">>, <<"c",".","d">>, <<"(">> }

(***************************************************************************)
(* Initial state: empty collection, nobody logged in, no request served.  *)
(***************************************************************************)
Init ==
    /\ store = <<>>
    /\ session = [s \in Sessions |-> FALSE]
    /\ pc = [t \in Threads |-> "idle"]
    /\ req = [t \in Threads |-> NoRequest]
    /\ request = NoRequest
    /\ response = NoResponse
    /\ dbCalls = <<>>
    /\ authHist = [s \in Sessions |-> [last |-> "none", decisive |-> "none"]]

(***************************************************************************)
(* GET /<mode>/<subject>                                                   *)
(***************************************************************************)
\* Variant of SubjectFilter that leaves the mode out of the filter.
SubjectFilter_NoMode(d, mode, subject) == d.subject = subject

\* the filter {'mode': mode, 'subject': subject}
SubjectFilter(d, mode, subject) == d.mode = mode /\ d.subject = subject

subject_page(mode0, subject0) ==
    LET mode == lower(mode0)
        subject == lower(subject0)
        matching == {d \in Range(store) : SubjectFilter(d, mode, subject)}
    IN  /\ request' = [route |-> "subject_page", mode |-> mode0, subject |-> subject0]
        /\ IF ~valid_mode(mode) \/ ~valid_subject(subject)
           THEN /\ response' = Render("subject_page", 404, "error.html", <<>>,
                                      [message |-> "Invalid Mode or Subject"])
                /\ dbCalls' = <<>>
           ELSE /\ response' = Render("subject_page", 200, "subject.html", <<>>,
                                      [mode |-> mode, subject |-> subject,
                                       pdfs |-> Find(store, matching)])
                /\ dbCalls' = <<"find">>
        /\ UNCHANGED <<store, session, pc, req, authHist>>

(***************************************************************************)
(* GET /pdf/<subject>/<filename>                                           *)
(***************************************************************************)
\* the filter {'subject': subject, 'filename': filename}
PdfFilter(d, subject, filename) == d.subject = subject /\ d.filename = filename

pdf_view(subject0, filename) ==
    LET subject == lower(subject0)
        matching == {d \in Range(store) : PdfFilter(d, subject, filename)}
        pdf == FindOne(store, matching)
    IN  /\ request' = [route |-> "pdf_view", subject |-> subject0, filename |-> filename]
        /\ IF ~valid_subject(subject)
           THEN /\ response' = Render("pdf_view", 404, "error.html", <<>>,
                                      [message |-> "Invalid Subject"])
                /\ dbCalls' = <<>>
           ELSE /\ dbCalls' = <<"find_one">>
                /\ IF pdf = None
                   THEN response' = Render("pdf_view", 404, "error.html", <<>>,
                                           [message |-> "PDF not found"])
                   ELSE response' = Render("pdf_view", 200, "pdf_view.html", <<>>,
                                           [pdf |-> pdf])
        /\ UNCHANGED <<store, session, pc, req, authHist>>

(***************************************************************************)
(* GET /search?query=...                                                   *)
(* A pattern the server cannot compile makes find() raise                 *)
(* OperationFailure, which search() does not catch: the request ends in   *)
(* the 500 response.                                                       *)
(***************************************************************************)
\* the filter {"$or": [{"title": {"$regex": query, "$options": "i"}}, ...]}
SearchFilter(d, query) ==
    \/ RegexSearch(query, d.title)
    \/ RegexSearch(query, d.subject)
    \/ RegexSearch(query, d.description)

search(query0) ==
    LET query == strip(query0)
        matching == {d \in Range(store) : SearchFilter(d, query)}
    IN  /\ request' = [route |-> "search", query |-> query0]
        /\ IF query = <<>>
           THEN /\ response' = Render("search", 200, "search_results.html", <<>>,
                                      [results |-> <<>>, query |-> query])
                /\ dbCalls' = <<>>
           ELSE /\ dbCalls' = <<"find">>
                /\ IF ~RegexCompiles(query)
                   THEN response' = Render("search", 500, "error.html", <<>>,
                                           [message |-> "Internal server error (500)"])
                   ELSE response' = Render("search", 200, "search_results.html", <<>>,
                                           [results |-> Find(store, matching), query |-> query])
        /\ UNCHANGED <<store, session, pc, req, authHist>>

(***************************************************************************)
(* /login and /logout.  session[s] is TRUE when the cookie of session s    *)
(* carries admin_logged_in = True.  authHist[s] is a history variable: the *)
(* kind of the latest login POST or logout of session s ("last"), and the  *)
(* latest of them that was a logout or a login with the right credential   *)
(* ("decisive").                                                           *)
(***************************************************************************)
LoginKind(form) ==
    IF /\ FormGet(form, "username") = ADMIN_USERNAME
       /\ FormGet(form, "password") = ADMIN_PASSWORD
    THEN "exact"
    ELSE IF /\ strip(FormGet(form, "username")) = ADMIN_USERNAME
            /\ strip(FormGet(form, "password")) = ADMIN_PASSWORD
         THEN "padded"
         ELSE "bad"

RecordLogin(s, form) ==
    LET kind == LoginKind(form)
    IN  [authHist EXCEPT ![s] =
            [last |-> kind,
             decisive |-> IF kind = "bad" THEN authHist[s].decisive ELSE "login"]]

login(s, method, form) ==
    LET username == strip(FormGet(form, "username"))
        password == strip(FormGet(form, "password"))
    IN  /\ request' = [route |-> "login", method |-> method, session |-> s, form |-> form]
        /\ dbCalls' = <<>>
        /\ IF method = "POST"
           THEN /\ authHist' = RecordLogin(s, form)
                /\ IF username = ADMIN_USERNAME /\ password = ADMIN_PASSWORD
                   THEN /\ session' = [session EXCEPT ![s] = TRUE]
                        /\ response' = Redirect("login", "upload",
                                          << <<"Logged in successfully.", "success">> >>,
                                          [none |-> TRUE])
                   ELSE /\ session' = session
                        /\ response' = Render("login", 200, "login.html",
                                          << <<"Invalid credentials.", "danger">> >>,
                                          [none |-> TRUE])
           ELSE /\ authHist' = authHist
                /\ session' = session
                /\ response' = Render("login", 200, "login.html", <<>>, [none |-> TRUE])
        /\ UNCHANGED <<store, pc, req>>

logout(s) ==
    /\ request' = [route |-> "logout", session |-> s]
    /\ session' = [session EXCEPT ![s] = FALSE]
    /\ authHist' = [authHist EXCEPT ![s] = [last |-> "logout", decisive |-> "logout"]]
    /\ response' = Redirect("logout", "home", << <<"Logged out.", "info">> >>, [none |-> TRUE])
    /\ dbCalls' = <<>>
    /\ UNCHANGED <<store, pc, req>>

\* Variant of admin_required that lets every request through.
admin_required_Open(s) == TRUE

\* admin_required: the wrapped view runs only when the session carries the flag
admin_required(s) == session[s]

(***************************************************************************)
(* /upload.  A POST is served by a worker thread in two atomic steps, one  *)
(* per access to the collection: upload_check runs the handler up to and   *)
(* including find_one (the gate, normalisation, validation and the slug    *)
(* touch only the request), upload_insert runs insert_one and the          *)
(* redirect.  Between the two, other requests may be served.               *)
(***************************************************************************)
InFlight == Cardinality({t \in Threads : pc[t] = "insert"})

\* Variant of Errors that reports only the first violated rule (elif chain).
Errors_FirstOnly(mode, subject, title, link) ==
    IF ~valid_mode(mode) THEN <<"Invalid mode selected.">>
    ELSE IF ~valid_subject(subject) THEN <<"Invalid subject selected.">>
    ELSE IF title = <<>> THEN <<"Title is required.">>
    ELSE IF link = <<>> THEN <<"Link is required.">>
    ELSE <<>>

Errors(mode, subject, title, link) ==
    (IF ~valid_mode(mode) THEN <<"Invalid mode selected.">> ELSE <<>>)
    \o (IF ~valid_subject(subject) THEN <<"Invalid subject selected.">> ELSE <<>>)
    \o (IF title = <<>> THEN <<"Title is required.">> ELSE <<>>)
    \o (IF link = <<>> THEN <<"Link is required.">> ELSE <<>>)

\* Variant of ExistsFilter that looks the slug up in the title field.
ExistsFilter_TitleField(d, filename, subject, mode) ==
    d.title = filename /\ d.subject = subject /\ d.mode = mode

\* the filter {'filename': filename, 'subject': subject, 'mode': mode}
ExistsFilter(d, filename, subject, mode) ==
    d.filename = filename /\ d.subject = subject /\ d.mode = mode

upload_check(t, s, method, form) ==
    LET mode == lower(FormGet(form, "mode"))
        subject == lower(FormGet(form, "subject"))
        title == strip(FormGet(form, "title"))
        link == strip(FormGet(form, "link"))
        description == strip(FormGet(form, "description"))
        photo == strip(FormGet(form, "photo"))
        errors == Errors(mode, subject, title, link)
        filename == generate_slug(title)
        matching == {d \in Range(store) : ExistsFilter(d, filename, subject, mode)}
        exists == FindOne(store, matching)
        pdf_data == [mode |-> mode, subject |-> subject, title |-> title,
                     filename |-> filename, link |-> link,
                     description |-> description, photo |-> photo]
        thisRequest == [route |-> "upload", method |-> method, session |-> s, form |-> form]
    IN  /\ pc[t] = "idle"
        /\ request' = thisRequest
        /\ UNCHANGED <<store, session, authHist>>
        /\ IF ~admin_required(s)
           THEN /\ response' = Redirect("upload", "login",
                                  << <<"Please login to access this page.", "warning">> >>,
                                  [none |-> TRUE])
                /\ dbCalls' = <<>>
                /\ UNCHANGED <<pc, req>>
           ELSE IF method # "POST"
           THEN /\ response' = Render("upload", 200, "upload.html", <<>>,
                                      [modes |-> MODES, subjects |-> SUBJECTS])
                /\ dbCalls' = <<>>
                /\ UNCHANGED <<pc, req>>
           ELSE IF errors # <<>>
           THEN /\ response' = Render("upload", 200, "upload.html",
                                      [i \in 1..Len(errors) |-> <<errors[i], "danger">>],
                                      [modes |-> MODES, subjects |-> SUBJECTS, form |-> form])
                /\ dbCalls' = <<>>
                /\ UNCHANGED <<pc, req>>
           ELSE IF exists # None
           THEN /\ response' = Render("upload", 200, "upload.html",
                                      << <<"A PDF with this title already exists for this subject and mode.", "danger">> >>,
                                      [modes |-> MODES, subjects |-> SUBJECTS, form |-> form])
                /\ dbCalls' = <<"find_one">>
                /\ UNCHANGED <<pc, req>>
           ELSE /\ Len(store) + InFlight < MaxDocs
                /\ pc' = [pc EXCEPT ![t] = "insert"]
                /\ req' = [req EXCEPT ![t] = [request |-> thisRequest, pdf_data |-> pdf_data]]
                /\ response' = [op |-> "upload_pending"]
                /\ dbCalls' = <<"find_one">>

\* Variant of upload_insert against a collection with a unique index on
\* (mode, subject, filename): the insert is refused when the triple is taken.
upload_insert_UniqueIndex(t) ==
    LET pdf_data == req[t].pdf_data
        taken == \E i \in DOMAIN store :
                    ExistsFilter(store[i], pdf_data.filename, pdf_data.subject, pdf_data.mode)
    IN  /\ pc[t] = "insert"
        /\ store' = IF taken THEN store ELSE Append(store, pdf_data)
        /\ request' = req[t].request
        /\ response' =
              IF taken
              THEN Render("upload", 200, "upload.html",
                          << <<"A PDF with this title already exists for this subject and mode.", "danger">> >>,
                          [modes |-> MODES, subjects |-> SUBJECTS, form |-> req[t].request.form])
              ELSE Redirect("upload", "subject_page",
                          << <<"PDF metadata uploaded successfully!", "success">> >>,
                          [mode |-> pdf_data.mode, subject |-> pdf_data.subject])
        /\ dbCalls' = <<"insert_one">>
        /\ pc' = [pc EXCEPT ![t] = "idle"]
        /\ req' = [req EXCEPT ![t] = NoRequest]
        /\ UNCHANGED <<session, authHist>>

\* Variant of upload_insert that writes with replace_one(..., upsert=True)
\* keyed on (mode, subject): an existing record of that mode and subject is
\* overwritten.
upload_insert_Upsert(t) ==
    LET pdf_data == req[t].pdf_data
        same == {i \in DOMAIN store :
                    store[i].mode = pdf_data.mode /\ store[i].subject = pdf_data.subject}
    IN  /\ pc[t] = "insert"
        /\ store' = IF same = {} THEN Append(store, pdf_data)
                    ELSE [store EXCEPT ![CHOOSE i \in same : \A j \in same : i <= j] = pdf_data]
        /\ request' = req[t].request
        /\ response' = Redirect("upload", "subject_page",
                          << <<"PDF metadata uploaded successfully!", "success">> >>,
                          [mode |-> pdf_data.mode, subject |-> pdf_data.subject])
        /\ dbCalls' = <<"insert_one">>
        /\ pc' = [pc EXCEPT ![t] = "idle"]
        /\ req' = [req EXCEPT ![t] = NoRequest]
        /\ UNCHANGED <<session, authHist>>

upload_insert(t) ==
    LET pdf_data == req[t].pdf_data
    IN  /\ pc[t] = "insert"
        /\ store' = Append(store, pdf_data)
        /\ request' = req[t].request
        /\ response' = Redirect("upload", "subject_page",
                          << <<"PDF metadata uploaded successfully!", "success">> >>,
                          [mode |-> pdf_data.mode, subject |-> pdf_data.subject])
        /\ dbCalls' = <<"insert_one">>
        /\ pc' = [pc EXCEPT ![t] = "idle"]
        /\ req' = [req EXCEPT ![t] = NoRequest]
        /\ UNCHANGED <<session, authHist>>

(***************************************************************************)
(* Specifications.  Spec serves requests in any interleaving; SpecSeq      *)
(* starts an upload only when no other upload is between its check and its *)
(* insert (uploads processed one at a time).                               *)
(***************************************************************************)
NoForm == <<>>

LoginRequests == {<<"GET", NoForm>>} \cup {<<"POST", f>> : f \in LoginForms}

UploadRequests == {<<"GET", NoForm>>} \cup {<<"POST", f>> : f \in UploadForms}

SubjectPage == \E m \in ModeArgs, s \in SubjectArgs : subject_page(m, s)

PdfView == \E s \in SubjectArgs, f \in FilenameArgs : pdf_view(s, f)

Search == \E q \in Queries : search(q)

Login == \E s \in Sessions, r \in LoginRequests : login(s, r[1], r[2])

Logout == \E s \in Sessions : logout(s)

\* The workers are interchangeable: a request goes to the first idle one.
Idle == {t \in Threads : pc[t] = "idle"}

FirstIdle(t) == t \in Idle /\ \A u \in Idle : t = "t1" \/ u # "t1"

UploadCheck ==
    \E t \in Threads, s \in Sessions, r \in UploadRequests :
        FirstIdle(t) /\ upload_check(t, s, r[1], r[2])

UploadCheckSeq ==
    \E t \in Threads, s \in Sessions, r \in UploadRequests :
        /\ \A u \in Threads : pc[u] = "idle"
        /\ FirstIdle(t)
        /\ upload_check(t, s, r[1], r[2])

UploadInsert == \E t \in Threads : upload_insert(t)

Next ==
    \/ SubjectPage
    \/ PdfView
    \/ Search
    \/ Login
    \/ Logout
    \/ UploadCheck
    \/ UploadInsert

NextSeq ==
    \/ SubjectPage
    \/ PdfView
    \/ Search
    \/ Login
    \/ Logout
    \/ UploadCheckSeq
    \/ UploadInsert

Spec == Init /\ [][Next]_vars

SpecSeq == Init /\ [][NextSeq]_vars

(***************************************************************************)
(* Properties                                                              *)
(***************************************************************************)
\* Terminal states of the upload workflow, read off the response.
ValidationMessages ==
    {"Invalid mode selected.", "Invalid subject selected.",
     "Title is required.", "Link is required."}

GateRedirect(r) == r.op = "upload" /\ r.status = 302 /\ r.view = "login"

Created(r) == r.op = "upload" /\ r.status = 302 /\ r.view = "subject_page"

DuplicateExists(r) ==
    /\ r.op = "upload" /\ r.status = 200 /\ r.view = "upload.html"
    /\ r.flashes = << <<"A PDF with this title already exists for this subject and mode.", "danger">> >>

ValidationFailed(r) ==
    /\ r.op = "upload" /\ r.status = 200 /\ r.view = "upload.html"
    /\ r.flashes # <<>>
    /\ \A i \in DOMAIN r.flashes : r.flashes[i][1] \in ValidationMessages

\* An upload POST that was let through the session gate.
UploadPost(rq, r) ==
    /\ rq.route = "upload" /\ rq.method = "POST"
    /\ r.op \in {"upload", "upload_pending"}
    /\ ~GateRedirect(r)

Count(seq, x) == Cardinality({i \in DOMAIN seq : seq[i] = x})

IsPrefix(a, b) == Len(a) <= Len(b) /\ SubSeq(b, 1, Len(a)) = a

ModeSet == { <<"a","c","a","d","e","m","i","c">>, <<"a","d","m","i","s","s","i","o","n">> }

SubjectSet == Range(SUBJECTS)

\* The four validation rules, as the upload contract words them.
ModeRuleBroken(form) == lower(FormGet(form, "mode")) \notin ModeSet

SubjectRuleBroken(form) == lower(FormGet(form, "subject")) \notin SubjectSet

TitleRuleBroken(form) == strip(FormGet(form, "title")) = <<>>

LinkRuleBroken(form) == strip(FormGet(form, "link")) = <<>>

AnyRuleBroken(form) ==
    ModeRuleBroken(form) \/ SubjectRuleBroken(form) \/ TitleRuleBroken(form) \/ LinkRuleBroken(form)

\* The (mode, subject, filename) triple of a stored record and of a form.
Triple(d) == <<d.mode, d.subject, d.filename>>

FormTriple(form) ==
    <<lower(FormGet(form, "mode")), lower(FormGet(form, "subject")),
      generate_slug(strip(FormGet(form, "title")))>>

NoDuplicateTriples(coll) ==
    \A i, j \in DOMAIN coll : Triple(coll[i]) = Triple(coll[j]) => i = j

\* C1: with uploads processed one at a time, the store never holds two
\* records with the same (mode, subject, filename) triple, and a valid
\* upload whose normalized mode, subject and slug(title) match a record
\* already stored ends in DuplicateExists and leaves the store as it was.
C1_SequentialUnique ==
    [][ /\ NoDuplicateTriples(store')
        /\ ( /\ UploadPost(request', response')
             /\ ~AnyRuleBroken(request'.form)
             /\ \E i \in DOMAIN store : Triple(store[i]) = FormTriple(request'.form)
             => DuplicateExists(response') /\ store' = store ) ]_vars

\* C1 witness: an upload was rejected as a duplicate of a stored record
\* whose title differs from the submitted title but has the same slug.
C1_Witness ==
    /\ request.route = "upload"
    /\ DuplicateExists(response)
    /\ \E i \in DOMAIN store :
          /\ Triple(store[i]) = FormTriple(request.form)
          /\ store[i].title # strip(FormGet(request.form, "title"))

\* C2: a worker that passed the uniqueness check inserts its record
\* whatever the store holds by then, also when another worker that passed
\* the check for the same triple has inserted in the meantime; both end in
\* Created.
C2_InsertAfterCheck ==
    [][ \A t \in Threads :
          pc[t] = "insert" /\ pc'[t] = "idle"
          => /\ store' = Append(store, req[t].pdf_data)
             /\ Created(response') ]_vars

\* C2 witness: starting from the empty store, two submissions with the
\* same (mode, subject, title) were both inserted.
C2_Witness ==
    /\ Len(store) = 2
    /\ Triple(store[1]) = Triple(store[2])
    /\ store[1].title = store[2].title
    /\ Created(response)

\* C3: for an upload POST, each of the four validation messages is flashed
\* exactly once when its rule is violated and not at all when it holds; when
\* some rule is violated the upload ends in ValidationFailed with the form as
\* submitted, makes no call to the collection and leaves the store unchanged.
C3_Validation ==
    [][ UploadPost(request', response') /\ response'.op = "upload"
        => LET form == request'.form
               msgs == [i \in DOMAIN response'.flashes |-> response'.flashes[i][1]]
           IN  /\ Count(msgs, "Invalid mode selected.") = (IF ModeRuleBroken(form) THEN 1 ELSE 0)
               /\ Count(msgs, "Invalid subject selected.") = (IF SubjectRuleBroken(form) THEN 1 ELSE 0)
               /\ Count(msgs, "Title is required.") = (IF TitleRuleBroken(form) THEN 1 ELSE 0)
               /\ Count(msgs, "Link is required.") = (IF LinkRuleBroken(form) THEN 1 ELSE 0)
               /\ ( AnyRuleBroken(form)
                    => /\ ValidationFailed(response')
                       /\ response'.ctx.form = form
                       /\ dbCalls' = <<>>
                       /\ store' = store ) ]_vars

\* C3 witness: empty title and empty link, valid mode and subject: exactly
\* the two messages "Title is required." and "Link is required.".
C3_Witness ==
    /\ request.route = "upload"
    /\ ValidationFailed(response)
    /\ response.flashes = << <<"Title is required.", "danger">>, <<"Link is required.", "danger">> >>
    /\ response.ctx.form = request.form
    /\ ~ModeRuleBroken(request.form)

\* C4: every stored record has a lowercase mode of the mode set, a lowercase
\* subject of the subject set, a non-empty trimmed title and link, and the
\* slug of its own title as filename.
C4_RecordsWellFormed ==
    \A i \in DOMAIN store :
        LET d == store[i]
        IN  /\ d.mode \in ModeSet /\ lower(d.mode) = d.mode
            /\ d.subject \in SubjectSet /\ lower(d.subject) = d.subject
            /\ d.title # <<>> /\ strip(d.title) = d.title
            /\ d.link # <<>> /\ strip(d.link) = d.link
            /\ d.filename = generate_slug(d.title)

\* C4 witness: a record stored from a submission with mode "Academic",
\* subject "ICT" and a padded title.
C4_Witness ==
    \E i \in DOMAIN store :
        /\ store[i].mode = <<"a","c","a","d","e","m","i","c">>
        /\ store[i].subject = <<"i","c","t">>
        /\ store[i].title = <<"A"," ","b">>
        /\ store[i].filename = <<"a","-","b">>

\* C5: subject_page answers 404 exactly when the lowercased mode is not a
\* mode or the lowercased subject is not a subject, and otherwise lists
\* exactly the stored documents whose mode and subject equal the lowercased
\* inputs.
C5_ListBySubject ==
    request.route = "subject_page"
    => LET mode == lower(request.mode)
           subject == lower(request.subject)
       IN  IF mode \notin ModeSet \/ subject \notin SubjectSet
           THEN response.status = 404 /\ dbCalls = <<>>
           ELSE /\ response.status = 200
                /\ \A d \in Range(store) \cup Range(response.ctx.pdfs) :
                      Count(response.ctx.pdfs, d) =
                         (IF d.mode = mode /\ d.subject = subject
                          THEN Count(store, d) ELSE 0)

\* C5 witness: a listing that returns some stored document and leaves out
\* another one.
C5_Witness ==
    /\ request.route = "subject_page"
    /\ response.status = 200
    /\ Len(response.ctx.pdfs) = 1
    /\ Len(store) = 2

\* C6: with uploads processed one at a time, at most one stored document
\* matches any (subject, filename) pair, and pdf_view answers NotFound
\* exactly when no stored document matches and otherwise returns the only
\* document that matches.
C6_UniqueBySubjectAndFilename ==
    /\ \A i, j \in DOMAIN store :
          store[i].subject = store[j].subject /\ store[i].filename = store[j].filename
          => i = j
    /\ ( request.route = "pdf_view" /\ lower(request.subject) \in SubjectSet
         => LET hits == {i \in DOMAIN store :
                           /\ store[i].subject = lower(request.subject)
                           /\ store[i].filename = request.filename}
            IN  IF hits = {} THEN response.status = 404
                ELSE /\ response.status = 200
                     /\ \A i \in hits : response.ctx.pdf = store[i] )

\* Case-insensitive occurrence of the text q, taken literally, in text.
ContainsLiteral(text, q) ==
    \E off \in 0..(Len(text) - Len(q)) :
        \A j \in 1..Len(q) : LowerChar(q[j]) = LowerChar(text[off + j])

\* C7: for a query that is non-empty after trimming, search succeeds and
\* returns exactly the stored documents whose title, subject or description
\* contains the trimmed query as a literal, case-insensitive substring.
C7_SearchLiteral ==
    request.route = "search" /\ strip(request.query) # <<>>
    => LET q == strip(request.query)
           Hit(d) == \/ ContainsLiteral(d.title, q)
                     \/ ContainsLiteral(d.subject, q)
                     \/ ContainsLiteral(d.description, q)
       IN  /\ response.status = 200
           /\ \A d \in Range(store) \cup Range(response.ctx.results) :
                 Count(response.ctx.results, d) = (IF Hit(d) THEN Count(store, d) ELSE 0)

\* C8 as claimed: an upload POST passes the session gate only if the latest
\* login POST or logout of its session is a login whose submitted username
\* and password equal the configured credential; otherwise it is redirected
\* to login and the store is unchanged.
C8_LatestEventIsGoodLogin ==
    [][ /\ request'.route = "upload" /\ request'.method = "POST"
        /\ dbCalls' # <<"insert_one">>
        => IF authHist[request'.session].last = "exact"
           THEN ~GateRedirect(response')
           ELSE GateRedirect(response') /\ store' = store ]_vars

\* C8 amended: an upload POST passes the session gate exactly when the
\* session has had a login POST whose username and password, after
\* trimming, equal the configured credential, and no logout since then;
\* login POSTs with other credentials do not change this.  Otherwise the
\* request is redirected to login and the store is unchanged.
C8_LoggedInSinceLastLogout ==
    [][ /\ request'.route = "upload" /\ request'.method = "POST"
        /\ dbCalls' # <<"insert_one">>
        => IF authHist[request'.session].decisive = "login"
           THEN ~GateRedirect(response')
           ELSE GateRedirect(response') /\ store' = store ]_vars

\* C8 witness: an upload POST passed the gate although the session's latest
\* login attempt failed (an earlier login succeeded and no logout followed).
C8_Witness ==
    /\ request.route = "upload" /\ request.method = "POST"
    /\ response.op = "upload_pending"
    /\ authHist[request.session].last = "bad"

\* C9: the store is append-only.  Every step keeps the stored records, in
\* place and unchanged; the reads, login and logout, and uploads ending in
\* ValidationFailed or DuplicateExists leave the store as it is; a step adds
\* a record exactly when an upload ends in Created, and then adds one.
C9_AppendOnly ==
    [][ /\ IsPrefix(store, store')
        /\ Len(store') <= Len(store) + 1
        /\ (Len(store') = Len(store) + 1 <=> Created(response'))
        /\ ( response'.op \in {"subject_page", "pdf_view", "search", "login", "logout"}
             => store' = store )
        /\ ( ValidationFailed(response') \/ DuplicateExists(response') => store' = store ) ]_vars

\* C9 witness: an upload ended in Created in a store that already held a
\* record, which is still the first record.
C9_Witness ==
    /\ Created(response)
    /\ Len(store) = 2
    /\ Triple(store[1]) # Triple(store[2])

\* C10: every stored record has a non-empty filename.
C10_FilenameNonEmpty ==
    \A i \in DOMAIN store : store[i].filename # <<>>

====
